---------------------------- MODULE Spec2Model ----------------------------
(***************************************************************************)
(* State-machine model of GameScene (src/src/phaser/scenes/GameScene.ts),  *)
(* the wave/combat loop of the worm-defense shooter.                        *)
(*                                                                         *)
(* The scene's fields, its four pools, its pending timers and the overlay  *)
(* buttons are the state.  Every callback the scene registers with the     *)
(* engine (overlap rules, timer callbacks, pointer handlers, update) is    *)
(* one action.  The callbacks are sequential code, so each is written as a *)
(* function from the scene state (a record, see Cur) to the scene state    *)
(* and the action installs the result (Set).                               *)
(*                                                                         *)
(* Abstractions.  Time is not measured: a pending timer may fire at any    *)
(* moment, its delay is kept as data.  The one order the delays fix and    *)
(* the model keeps is that of a spawn timer's last firing and the delayed  *)
(* start of the next wave (WaveAdvanceFire).  Positions are not kept: the  *)
(* tick reads, for each active entity, the region of the plane it is (an  *)
(* input of Update), which is what cleanupObjects tests.  An entity slot   *)
(* whose active flag is FALSE is a destroyed entity to which the engine or *)
(* a closure may still hold a handle.                                      *)
(***************************************************************************)
EXTENDS Integers, Sequences, FiniteSets

\* ---------------------------------------------------------------- bounds
MaxEnemies == 2
MaxPlayerBullets == 1
MaxEnemyBullets == 1
MaxHearts == 1
MaxKills == 2
MaxWave == 3
MaxWaveTimers == 2
LateWave == 10
MaxFireWave == 15

\* ------------------------------------------------------ program constants
INVULNERABLE_MS_AFTER_HIT == 700
HEART_HEAL_AMOUNT == 28
KILL_SCORE == 10
INITIAL_HEALTH == 100
INITIAL_LIVES == 3
INITIAL_WAVE == 1
INITIAL_ENEMIES_PER_WAVE == 4
ENEMIES_PER_WAVE_CAP == 12
SHOOTER_FROM_WAVE == 3
CHECK_WAVE_DELAY == 500
BETWEEN_MIN == 1200
BETWEEN_MAX == 2200
FIRE_DELAY_STEP == 50
FIRE_DELAY_CAP == 500
WAVE_ADVANCE_DELAY == 700

VARIABLES
    gameStarted,      \* this.gameStarted
    isGameOver,       \* this.isGameOver
    invulnerable,     \* this.invulnerable
    score,            \* this.score
    health,           \* this.health
    maxHealth,        \* this.maxHealth
    lives,            \* this.lives
    wave,             \* this.wave
    enemiesPerWave,   \* this.enemiesPerWave
    wormActive,       \* this.worm.active
    enemies,          \* this.enemies: slot -> [active, hasHit, isShooter, shootTimer, shootDelay,
                      \*   wave (the wave it was spawned in), hits]
    playerBullets,    \* this.playerBullets: slot -> active
    enemyBullets,     \* this.enemyBullets: slot -> active
    hearts,           \* this.hearts: slot -> active
    waveTimers,       \* the live spawnWave invocations: <<[count, spawned, delay, checkDelay, spawnTimer, checkWaveTimer]>>
    advanceCalls,     \* pending delayedCall(700, spawnWave): a sequence of their delays
    invulCalls,       \* pending delayedCall(INVULNERABLE_MS_AFTER_HIT, ...): a sequence of their delays
    heartTimers,      \* live pickup timers of startGame
    overlay,          \* "start": START button shown, "gameover": RESTART button shown, "none"
    warned,           \* console.warn was called for a refused removal of the worm
    uncaught,         \* an exception left a callback uncaught
    kills,            \* enemies destroyed by a player projectile since the last start
    endGames          \* times endGame ran past its guard since the last start

vars == <<gameStarted, isGameOver, invulnerable, score, health, maxHealth, lives, wave,
          enemiesPerWave, wormActive, enemies, playerBullets, enemyBullets, hearts,
          waveTimers, advanceCalls, invulCalls, heartTimers, overlay, warned, uncaught,
          kills, endGames>>

\* ---------------------------------------------------------------- helpers
Min(a, b) == IF a <= b THEN a ELSE b
Max(a, b) == IF a >= b THEN a ELSE b

\* Phaser.Math.Clamp(value, min, max)
Clamp(v, lo, hi) == Max(lo, Min(hi, v))

EnemySlots == 1..MaxEnemies
PlayerBulletSlots == 1..MaxPlayerBullets
EnemyBulletSlots == 1..MaxEnemyBullets
HeartSlots == 1..MaxHearts

\* Handles: the worm, a missing handle, or a slot of one of the four pools.
Worm == <<"worm", 0>>
Null == <<"null", 0>>
EnemyH(i) == <<"enemy", i>>
PlayerBulletH(i) == <<"playerBullet", i>>
EnemyBulletH(i) == <<"enemyBullet", i>>
HeartH(i) == <<"heart", i>>
Handles == {Worm, Null} \cup {EnemyH(i) : i \in EnemySlots}
              \cup {PlayerBulletH(i) : i \in PlayerBulletSlots}
              \cup {EnemyBulletH(i) : i \in EnemyBulletSlots}
              \cup {HeartH(i) : i \in HeartSlots}

\* An enemy slot holding no live entity.  destroy() drops the entity's data
\* (getData then yields undefined, i.e. falsy) and, through the 'destroy'
\* listener, its fire timer; hits is kept for the destroyed instance.
NoEnemy == [active |-> FALSE, hasHit |-> FALSE, isShooter |-> FALSE,
            shootTimer |-> FALSE, shootDelay |-> 0, wave |-> 0, hits |-> 0]

\* The scene state as one record.
Cur == [gameStarted |-> gameStarted, isGameOver |-> isGameOver,
        invulnerable |-> invulnerable, score |-> score, health |-> health,
        maxHealth |-> maxHealth, lives |-> lives, wave |-> wave,
        enemiesPerWave |-> enemiesPerWave, wormActive |-> wormActive,
        enemies |-> enemies, playerBullets |-> playerBullets,
        enemyBullets |-> enemyBullets, hearts |-> hearts,
        waveTimers |-> waveTimers, advanceCalls |-> advanceCalls,
        invulCalls |-> invulCalls, heartTimers |-> heartTimers,
        overlay |-> overlay, warned |-> warned, uncaught |-> uncaught,
        kills |-> kills, endGames |-> endGames]

Set(t) ==
    LET u == t IN
    /\ gameStarted' = u.gameStarted
    /\ isGameOver' = u.isGameOver
    /\ invulnerable' = u.invulnerable
    /\ score' = u.score
    /\ health' = u.health
    /\ maxHealth' = u.maxHealth
    /\ lives' = u.lives
    /\ wave' = u.wave
    /\ enemiesPerWave' = u.enemiesPerWave
    /\ wormActive' = u.wormActive
    /\ enemies' = u.enemies
    /\ playerBullets' = u.playerBullets
    /\ enemyBullets' = u.enemyBullets
    /\ hearts' = u.hearts
    /\ waveTimers' = u.waveTimers
    /\ advanceCalls' = u.advanceCalls
    /\ invulCalls' = u.invulCalls
    /\ heartTimers' = u.heartTimers
    /\ overlay' = u.overlay
    /\ warned' = u.warned
    /\ uncaught' = u.uncaught
    /\ kills' = u.kills
    /\ endGames' = u.endGames

\* obj?.active
Active(s, h) ==
    CASE h[1] = "worm" -> s.wormActive
      [] h[1] = "enemy" -> s.enemies[h[2]].active
      [] h[1] = "playerBullet" -> s.playerBullets[h[2]]
      [] h[1] = "enemyBullet" -> s.enemyBullets[h[2]]
      [] h[1] = "heart" -> s.hearts[h[2]]
      [] OTHER -> FALSE

\* obj.destroy() without the enemy's 'destroy' listener of lines 310-312: the
\* fire timer of a destroyed enemy stays scheduled
Destroy_NoListener(s, h) ==
    CASE h[1] = "worm" -> [s EXCEPT !.wormActive = FALSE]
      [] h[1] = "enemy" ->
            [s EXCEPT !.enemies[h[2]] =
                [NoEnemy EXCEPT !.hits = s.enemies[h[2]].hits,
                                !.shootTimer = s.enemies[h[2]].shootTimer,
                                !.shootDelay = s.enemies[h[2]].shootDelay]]
      [] h[1] = "playerBullet" -> [s EXCEPT !.playerBullets[h[2]] = FALSE]
      [] h[1] = "enemyBullet" -> [s EXCEPT !.enemyBullets[h[2]] = FALSE]
      [] h[1] = "heart" -> [s EXCEPT !.hearts[h[2]] = FALSE]
      [] OTHER -> s

\* obj.destroy(): the entity becomes inactive; an enemy's 'destroy' listener
\* removes its fire timer (lines 310-312) and its data goes with it.
Destroy(s, h) ==
    CASE h[1] = "worm" -> [s EXCEPT !.wormActive = FALSE]
      [] h[1] = "enemy" ->
            [s EXCEPT !.enemies[h[2]] = [NoEnemy EXCEPT !.hits = s.enemies[h[2]].hits]]
      [] h[1] = "playerBullet" -> [s EXCEPT !.playerBullets[h[2]] = FALSE]
      [] h[1] = "enemyBullet" -> [s EXCEPT !.enemyBullets[h[2]] = FALSE]
      [] h[1] = "heart" -> [s EXCEPT !.hearts[h[2]] = FALSE]
      [] OTHER -> s


\* Lowest slot of a pool holding no live entity (group.create always succeeds;
\* the actions that create are guarded on a slot being free).
FreeEnemySlots(s) == {i \in EnemySlots : ~s.enemies[i].active}
FreePlayerBulletSlots(s) == {i \in PlayerBulletSlots : ~s.playerBullets[i]}
FreeEnemyBulletSlots(s) == {i \in EnemyBulletSlots : ~s.enemyBullets[i]}
FreeHeartSlots(s) == {i \in HeartSlots : ~s.hearts[i]}
Lowest(S) == CHOOSE i \in S : \A j \in S : i <= j

\* this.enemies.countActive(true)
CountActiveEnemies(s) == Cardinality({i \in EnemySlots : s.enemies[i].active})

\* group.clear(true, true): every child is destroyed and leaves the group.
ClearedEnemies == [i \in EnemySlots |-> NoEnemy]
ClearedPlayerBullets == [i \in PlayerBulletSlots |-> FALSE]
ClearedEnemyBullets == [i \in EnemyBulletSlots |-> FALSE]
ClearedHearts == [i \in HeartSlots |-> FALSE]

\* ------------------------------------------------------- scene methods

\* safeDestroy without lines 221-224 (the worm is destroyed like any object)
safeDestroy_NoWormGuard(s, h) ==
    IF h = Null THEN s
    ELSE IF Active(s, h) = FALSE THEN s
    ELSE Destroy(s, h)

\* safeDestroy without line 219: obj.active of a missing handle is a TypeError
\* raised before the try block
safeDestroy_NoNullGuard(s, h) ==
    IF h = Worm THEN [s EXCEPT !.warned = TRUE]
    ELSE IF h = Null THEN [s EXCEPT !.uncaught = TRUE]
    ELSE IF Active(s, h) = FALSE THEN s
    ELSE Destroy(s, h)

\* safeDestroy(obj), lines 218-234
safeDestroy(s, h) ==
    IF h = Null THEN s
    ELSE IF h = Worm THEN [s EXCEPT !.warned = TRUE]
    ELSE IF Active(s, h) = FALSE THEN s
    ELSE Destroy(s, h)

\* addScore with "this.score = n" for "this.score += n"
addScore_Assign(s, n) == [s EXCEPT !.score = n]

\* addScore(n), lines 377-380
addScore(s, n) == [s EXCEPT !.score = s.score + n]

\* heal without the clamp
heal_NoClamp(s, amount) ==
    IF s.isGameOver THEN s
    ELSE [s EXCEPT !.health = s.health + amount]

\* heal(amount), lines 371-375
heal(s, amount) ==
    IF s.isGameOver THEN s
    ELSE [s EXCEPT !.health = Clamp(s.health + amount, 0, s.maxHealth)]

\* endGame(), lines 382-403
endGame(s) ==
    IF s.isGameOver THEN s
    ELSE [s EXCEPT !.isGameOver = TRUE,
                   !.gameStarted = FALSE,
                   !.playerBullets = ClearedPlayerBullets,
                   !.enemyBullets = ClearedEnemyBullets,
                   !.hearts = ClearedHearts,
                   !.overlay = "gameover",
                   !.endGames = s.endGames + 1]

\* loseLife with "this.lives < 0" for "this.lives <= 0"
loseLife_LateEnd(s) ==
    IF s.isGameOver THEN s
    ELSE LET s1 == [s EXCEPT !.invulnerable = TRUE,
                             !.invulCalls = Append(s.invulCalls, INVULNERABLE_MS_AFTER_HIT),
                             !.lives = s.lives - 1]
             s2 == [s1 EXCEPT !.lives = 0]
         IN  IF s1.lives < 0 THEN endGame(s2) ELSE s1

\* loseLife(), lines 349-369
loseLife(s) ==
    IF s.isGameOver THEN s
    ELSE LET s1 == [s EXCEPT !.invulnerable = TRUE,
                             !.invulCalls = Append(s.invulCalls, INVULNERABLE_MS_AFTER_HIT),
                             !.lives = s.lives - 1]
             s2 == [s1 EXCEPT !.lives = 0]
         IN  IF s1.lives <= 0 THEN endGame(s2) ELSE s1

\* shootAt(targetX, targetY), lines 237-256: one projectile at the worm.
shootAt(s) ==
    IF ~s.gameStarted \/ s.isGameOver THEN s
    ELSE IF ~s.wormActive THEN s
    ELSE [s EXCEPT !.playerBullets[Lowest(FreePlayerBulletSlots(s))] = TRUE]

\* spawnHeart(), lines 340-346
spawnHeart(s) == [s EXCEPT !.hearts[Lowest(FreeHeartSlots(s))] = TRUE]

\* spawnDelay of spawnWave, line 263
spawnDelay(w) == Max(220, 900 - Min(w * 60, 600))

\* spawnWave(), lines 259-338: the two timers of one invocation, with the
\* invocation's locals count and spawned.
spawnWave(s) ==
    IF ~s.gameStarted \/ s.isGameOver THEN s
    ELSE [s EXCEPT !.waveTimers =
            Append(s.waveTimers,
                   [count |-> s.enemiesPerWave, spawned |-> 0,
                    delay |-> spawnDelay(s.wave), checkDelay |-> CHECK_WAVE_DELAY,
                    spawnTimer |-> TRUE, checkWaveTimer |-> TRUE])]

\* An invocation of spawnWave is dropped once both of its timers are removed.
HasTimer(w) == w.spawnTimer \/ w.checkWaveTimer
Live(ws) == SelectSeq(ws, HasTimer)

\* shooterChance without the wave test
shooterChance_AllWaves(w) == 45

\* shooterChance, line 283 (in percent)
shooterChance(w) == IF w >= SHOOTER_FROM_WAVE THEN 45 ELSE 0

\* fire-timer delay without the cap on the reduction
shootTimerDelay_NoCap(between, w) == between - (w - SHOOTER_FROM_WAVE) * FIRE_DELAY_STEP

\* delay of a shooter's fire timer, line 292
shootTimerDelay(between, w) ==
    between - Min((w - SHOOTER_FROM_WAVE) * FIRE_DELAY_STEP, FIRE_DELAY_CAP)

\* spawnTimer callback without "spawned++" (line 315)
spawnTimerCallback_NoCount(s, k, r) ==
    LET w == s.waveTimers[k] IN
    IF s.isGameOver \/ w.spawned >= w.count
    THEN [s EXCEPT !.waveTimers = Live([s.waveTimers EXCEPT ![k].spawnTimer = FALSE])]
    ELSE LET isShooter == r.chance < shooterChance(s.wave)
             e == Lowest(FreeEnemySlots(s))
         IN  [s EXCEPT !.enemies[e] = [active |-> TRUE, hasHit |-> FALSE,
                                       isShooter |-> isShooter,
                                       shootTimer |-> isShooter,
                                       shootDelay |-> IF isShooter
                                                      THEN shootTimerDelay(r.between, s.wave)
                                                      ELSE 0,
                                       wave |-> s.wave,
                                       hits |-> 0]]

\* spawnTimer callback, lines 269-316; r holds the random draws.
spawnTimerCallback(s, k, r) ==
    LET w == s.waveTimers[k] IN
    IF s.isGameOver \/ w.spawned >= w.count
    THEN [s EXCEPT !.waveTimers = Live([s.waveTimers EXCEPT ![k].spawnTimer = FALSE])]
    ELSE LET isShooter == r.chance < shooterChance(s.wave)
             e == Lowest(FreeEnemySlots(s))
         IN  [s EXCEPT !.enemies[e] = [active |-> TRUE, hasHit |-> FALSE,
                                       isShooter |-> isShooter,
                                       shootTimer |-> isShooter,
                                       shootDelay |-> IF isShooter
                                                      THEN shootTimerDelay(r.between, s.wave)
                                                      ELSE 0,
                                       wave |-> s.wave,
                                       hits |-> 0],
                       !.waveTimers[k].spawned = w.spawned + 1]

\* shootTimer callback of enemy e, lines 294-307
shootTimerCallback(s, e) ==
    IF ~s.enemies[e].active \/ s.isGameOver
    THEN [s EXCEPT !.enemies[e].shootTimer = FALSE, !.enemies[e].shootDelay = 0]
    ELSE [s EXCEPT !.enemyBullets[Lowest(FreeEnemyBulletSlots(s))] = TRUE]

\* checkWaveTimer callback that starts the next wave at once instead of
\* through the delayed call of lines 332-334
checkWaveCallback_SpawnNow(s, k) ==
    LET w == s.waveTimers[k] IN
    IF s.isGameOver
    THEN [s EXCEPT !.waveTimers = Live([s.waveTimers EXCEPT ![k].checkWaveTimer = FALSE])]
    ELSE IF w.spawned >= w.count /\ CountActiveEnemies(s) = 0
    THEN spawnWave([s EXCEPT !.waveTimers = Live([s.waveTimers EXCEPT ![k].checkWaveTimer = FALSE]),
                             !.wave = s.wave + 1,
                             !.enemiesPerWave = Min(ENEMIES_PER_WAVE_CAP, s.enemiesPerWave + 1)])
    ELSE s

\* checkWaveTimer callback without "this.enemies.countActive(true) === 0"
checkWaveCallback_NoActiveCheck(s, k) ==
    LET w == s.waveTimers[k] IN
    IF s.isGameOver
    THEN [s EXCEPT !.waveTimers = Live([s.waveTimers EXCEPT ![k].checkWaveTimer = FALSE])]
    ELSE IF w.spawned >= w.count
    THEN [s EXCEPT !.waveTimers = Live([s.waveTimers EXCEPT ![k].checkWaveTimer = FALSE]),
                   !.wave = s.wave + 1,
                   !.enemiesPerWave = Min(ENEMIES_PER_WAVE_CAP, s.enemiesPerWave + 1),
                   !.advanceCalls = Append(s.advanceCalls, WAVE_ADVANCE_DELAY)]
    ELSE s

\* checkWaveTimer callback, lines 323-336
checkWaveCallback(s, k) ==
    LET w == s.waveTimers[k] IN
    IF s.isGameOver
    THEN [s EXCEPT !.waveTimers = Live([s.waveTimers EXCEPT ![k].checkWaveTimer = FALSE])]
    ELSE IF w.spawned >= w.count /\ CountActiveEnemies(s) = 0
    THEN [s EXCEPT !.waveTimers = Live([s.waveTimers EXCEPT ![k].checkWaveTimer = FALSE]),
                   !.wave = s.wave + 1,
                   !.enemiesPerWave = Min(ENEMIES_PER_WAVE_CAP, s.enemiesPerWave + 1),
                   !.advanceCalls = Append(s.advanceCalls, WAVE_ADVANCE_DELAY)]
    ELSE s

\* delayedCall(700) callback, lines 332-334
advanceCallback(s) ==
    LET s1 == [s EXCEPT !.advanceCalls = Tail(s.advanceCalls)]
    IN  IF ~s1.isGameOver THEN spawnWave(s1) ELSE s1

\* delayedCall(INVULNERABLE_MS_AFTER_HIT) callback, lines 355-358
invulCallback(s) ==
    [s EXCEPT !.invulCalls = Tail(s.invulCalls), !.invulnerable = FALSE]


\* heart timer callback without the test of line 475 (a full pool spawns nothing)
heartTimerCallback_NoRunCheck(s) ==
    IF FreeHeartSlots(s) = {} THEN s ELSE spawnHeart(s)

\* pickup timer callback, lines 474-477
heartTimerCallback(s) ==
    IF ~s.gameStarted \/ s.isGameOver THEN s ELSE spawnHeart(s)


\* ------------------------------------------------ update and its cleanup

\* The display surface, src/unnamed/part_000 lines 7-8 (this.scale.width/height)
SCALE_WIDTH == 900
SCALE_HEIGHT == 505
PLAYER_SHOOT_COOLDOWN == 160

\* Regions of the plane an entity can be read in, each with one position.
Zones == {"in", "left", "right", "above", "below"}
RightZones == {"in", "right"}
\* The regions a tick of the model reads projectiles in: on screen, above it
\* or below it (a projectile flies towards the pointer or the worm, so it
\* can leave through either edge).
PlayerBulletTickZones == {"in", "above", "below"}
EnemyBulletTickZones == {"in", "above", "below"}
PosX(z) == CASE z = "left" -> -300 [] z = "right" -> 1200 [] OTHER -> 450
PosY(z) == CASE z = "above" -> -300 [] z = "below" -> 800 [] OTHER -> 250

\* The positions one tick reads: every slot without a live entity reads "in".
PlayerBulletObs(s) ==
    {o \in [PlayerBulletSlots -> PlayerBulletTickZones] : \A i \in PlayerBulletSlots : ~s.playerBullets[i] => o[i] = "in"}
EnemyBulletObs(s) ==
    {o \in [EnemyBulletSlots -> EnemyBulletTickZones] : \A i \in EnemyBulletSlots : ~s.enemyBullets[i] => o[i] = "in"}
EnemyObs(s) ==
    {o \in [EnemySlots -> RightZones] : \A i \in EnemySlots : ~s.enemies[i].active => o[i] = "in"}
HeartObs(s) ==
    {o \in [HeartSlots -> RightZones] : \A i \in HeartSlots : ~s.hearts[i] => o[i] = "in"}

\* safeDestroy on each handle of a set, in some order.
RECURSIVE safeDestroyEach(_, _)
safeDestroyEach(s, H) ==
    IF H = {} THEN s
    ELSE LET h == CHOOSE x \in H : TRUE
             s1 == safeDestroy(s, h)
         IN  safeDestroyEach(s1, H \ {h})

\* cleanupObjects(), lines 405-429; pos gives each entity's region.
cleanupObjects(s, pos) ==
    LET pBullets == {PlayerBulletH(i) : i \in {j \in PlayerBulletSlots :
                        /\ s.playerBullets[j]
                        /\ \/ PosY(pos.pb[j]) < -80
                           \/ PosX(pos.pb[j]) < -80
                           \/ PosX(pos.pb[j]) > SCALE_WIDTH + 80}}
        eBullets == {EnemyBulletH(i) : i \in {j \in EnemyBulletSlots :
                        /\ s.enemyBullets[j]
                        /\ \/ PosY(pos.eb[j]) > SCALE_HEIGHT + 200
                           \/ PosX(pos.eb[j]) < -200
                           \/ PosX(pos.eb[j]) > SCALE_WIDTH + 200}}
        es == {EnemyH(i) : i \in {j \in EnemySlots :
                        s.enemies[j].active /\ PosX(pos.en[j]) > SCALE_WIDTH + 160}}
        hs == {HeartH(i) : i \in {j \in HeartSlots :
                        s.hearts[j] /\ PosX(pos.h[j]) > SCALE_WIDTH + 60}}
    IN  safeDestroyEach(s, pBullets \cup eBullets \cup es \cup hs)

\* The space key as one tick reads it: key is "justDown" or "held" (a key
\* that is up reads like one held within the cooldown: no shot); elapsed is
\* time - lastPlayerShotAt.
SpaceInputs == {[key |-> "justDown", elapsed |-> 100],
                [key |-> "held", elapsed |-> 100], [key |-> "held", elapsed |-> 200]}
SpaceShoots(s, space) ==
    \/ space.key = "justDown" /\ ~s.isGameOver
    \/ space.key = "held" /\ space.elapsed > PLAYER_SHOOT_COOLDOWN

\* update(time), lines 171-213
update(s, space, pos) ==
    IF ~s.gameStarted \/ s.isGameOver THEN s
    ELSE IF ~s.wormActive THEN s
    ELSE LET s1 == IF SpaceShoots(s, space) THEN shootAt(s) ELSE s
         IN  cleanupObjects(s1, pos)

\* ---------------------------------------------------------- overlap rules

\* player bullets -> enemy, lines 103-117
onPlayerBulletEnemy(s, bullet, enemy) ==
    IF ~Active(s, bullet) \/ ~Active(s, enemy) THEN s
    ELSE IF enemy = Worm THEN [s EXCEPT !.warned = TRUE]
    ELSE LET s0 == safeDestroy(s, bullet)
             s1 == safeDestroy(s0, enemy)
             s2 == [s1 EXCEPT !.kills = s.kills + (IF Active(s1, enemy) THEN 0 ELSE 1)]
         IN  addScore(s2, KILL_SCORE)

\* player bullets -> enemy bullets, lines 120-125
onPlayerBulletEnemyBullet(s, pb, eb) ==
    LET s1 == IF Active(s, pb) THEN safeDestroy(s, pb) ELSE s
    IN  IF Active(s1, eb) THEN safeDestroy(s1, eb) ELSE s1

\* enemy bullets -> worm, lines 128-133
onEnemyBulletWorm(s, eb) ==
    LET s1 == IF Active(s, eb) THEN safeDestroy(s, eb) ELSE s
    IN  IF s1.invulnerable \/ s1.isGameOver THEN s1 ELSE loseLife(s1)

\* enemies -> worm without lines 143 and 147: the enemy is neither marked
\* nor destroyed after its hit
onEnemyWorm_NoMarkNoDestroy(s, enemy) ==
    IF ~Active(s, enemy) THEN s
    ELSE IF s.enemies[enemy[2]].hasHit THEN s
    ELSE IF s.invulnerable \/ s.isGameOver THEN s
    ELSE LET s2 == loseLife(s)
         IN  [s2 EXCEPT !.enemies[enemy[2]].hits = @ + (s.lives - s2.lives)]

\* enemies -> worm, lines 136-148; hits counts the lives this enemy took.
onEnemyWorm(s, enemy) ==
    IF ~Active(s, enemy) THEN s
    ELSE IF s.enemies[enemy[2]].hasHit THEN s
    ELSE IF s.invulnerable \/ s.isGameOver THEN s
    ELSE LET s1 == [s EXCEPT !.enemies[enemy[2]].hasHit = TRUE]
             s2 == loseLife(s1)
             s3 == [s2 EXCEPT !.enemies[enemy[2]].hits = @ + (s1.lives - s2.lives)]
         IN  safeDestroy(s3, enemy)

\* player bullets -> hearts, lines 151-159
onPlayerBulletHeart(s, pb, h) ==
    LET s1 == IF Active(s, pb) THEN safeDestroy(s, pb) ELSE s
        s2 == safeDestroy(s1, h)
    IN  IF Active(s1, h) THEN heal(s2, HEART_HEAL_AMOUNT) ELSE s1

\* pointerdown handler, lines 162-165
onPointerDown(s) ==
    IF ~s.gameStarted \/ s.isGameOver THEN s ELSE shootAt(s)

\* ------------------------------------------------------ start and restart

\* startGame without "this.lives = 3"
startGame_NoLivesReset(s) ==
    LET s1 == [s EXCEPT !.gameStarted = TRUE,
                        !.isGameOver = FALSE,
                        !.invulnerable = FALSE,
                        !.score = 0,
                        !.health = s.maxHealth,
                        !.wave = INITIAL_WAVE,
                        !.enemiesPerWave = INITIAL_ENEMIES_PER_WAVE,
                        !.enemies = ClearedEnemies,
                        !.playerBullets = ClearedPlayerBullets,
                        !.enemyBullets = ClearedEnemyBullets,
                        !.hearts = ClearedHearts,
                        !.heartTimers = s.heartTimers + 1,
                        !.overlay = "none",
                        !.kills = 0,
                        !.endGames = 0]
    IN  spawnWave(s1)

\* startGame(), lines 454-482
startGame(s) ==
    LET s1 == [s EXCEPT !.gameStarted = TRUE,
                        !.isGameOver = FALSE,
                        !.invulnerable = FALSE,
                        !.score = 0,
                        !.health = s.maxHealth,
                        !.lives = INITIAL_LIVES,
                        !.wave = INITIAL_WAVE,
                        !.enemiesPerWave = INITIAL_ENEMIES_PER_WAVE,
                        !.enemies = ClearedEnemies,
                        !.playerBullets = ClearedPlayerBullets,
                        !.enemyBullets = ClearedEnemyBullets,
                        !.hearts = ClearedHearts,
                        !.heartTimers = s.heartTimers + 1,
                        !.overlay = "none",
                        !.kills = 0,
                        !.endGames = 0]
    IN  spawnWave(s1)

\* RESTART handler, lines 398-402: scene.restart() shuts the scene down (its
\* game objects and its timers go) and runs create() again (lines 71-169): a
\* new worm, four new groups and the start overlay.  The fields of the scene
\* object are not initialised again.
restartScene(s) ==
    [s EXCEPT !.wormActive = TRUE,
              !.enemies = ClearedEnemies,
              !.playerBullets = ClearedPlayerBullets,
              !.enemyBullets = ClearedEnemyBullets,
              !.hearts = ClearedHearts,
              !.waveTimers = <<>>,
              !.advanceCalls = <<>>,
              !.invulCalls = <<>>,
              !.heartTimers = 0,
              !.overlay = "start"]


\* ------------------------------------------------------------------ Init

\* The field initialisers (lines 37-55) and create() (lines 71-169).
Init ==
    /\ gameStarted = FALSE
    /\ isGameOver = FALSE
    /\ invulnerable = FALSE
    /\ score = 0
    /\ health = INITIAL_HEALTH
    /\ maxHealth = INITIAL_HEALTH
    /\ lives = INITIAL_LIVES
    /\ wave = INITIAL_WAVE
    /\ enemiesPerWave = INITIAL_ENEMIES_PER_WAVE
    /\ wormActive = TRUE
    /\ enemies = ClearedEnemies
    /\ playerBullets = ClearedPlayerBullets
    /\ enemyBullets = ClearedEnemyBullets
    /\ hearts = ClearedHearts
    /\ waveTimers = <<>>
    /\ advanceCalls = <<>>
    /\ invulCalls = <<>>
    /\ heartTimers = 0
    /\ overlay = "start"
    /\ warned = FALSE
    /\ uncaught = FALSE
    /\ kills = 0
    /\ endGames = 0

\* --------------------------------------------------------------- actions
\* The random draws of one spawn: Math.random(), in percent, and
\* Phaser.Math.Between(1200, 2200) (line 292).
RandomDraws == {[chance |-> c, between |-> BETWEEN_MIN] : c \in {0, 44, 45, 99}}

\* START button, lines 445-451
StartGame ==
    LET c == Cur IN
        /\ overlay = "start"
        /\ LET t == startGame(c) IN Set(t)

\* RESTART button, lines 398-402
Restart ==
    LET c == Cur IN
        /\ overlay = "gameover"
        /\ LET t == restartScene(c) IN Set(t)

PointerDown ==
    LET c == Cur IN
        /\ (gameStarted /\ ~isGameOver) => FreePlayerBulletSlots(c) # {}
        /\ LET t == onPointerDown(c) IN Set(t)

\* One tick: what the space key and the entities' positions read as.
TickInputs(s) ==
    IF ~s.gameStarted \/ s.isGameOver
    THEN {[space |-> [key |-> "held", elapsed |-> 100],
           pos |-> [pb |-> [i \in PlayerBulletSlots |-> "in"],
                    eb |-> [i \in EnemyBulletSlots |-> "in"],
                    en |-> [i \in EnemySlots |-> "in"],
                    h |-> [i \in HeartSlots |-> "in"]]]}
    ELSE {[space |-> sp, pos |-> [pb |-> opb, eb |-> oeb, en |-> oen, h |-> oh]] :
            sp \in SpaceInputs, opb \in PlayerBulletObs(s), oeb \in EnemyBulletObs(s),
            oen \in EnemyObs(s), oh \in HeartObs(s)}

Update ==
    LET c == Cur IN
        \E in \in TickInputs(c) :
            /\ (gameStarted /\ ~isGameOver /\ SpaceShoots(c, in.space))
                  => FreePlayerBulletSlots(c) # {}
            /\ LET t == update(c, in.space, in.pos) IN Set(t)

\* The five overlap rules of create(), lines 103-159.  The physics world
\* calls a rule for a pair of pool members whose bodies are enabled, that is
\* for two active objects.
PlayerBulletEnemyOverlap ==
    LET c == Cur IN
        \E b \in PlayerBulletSlots, e \in EnemySlots :
            /\ playerBullets[b] /\ enemies[e].active
            /\ kills < MaxKills
            /\ LET t == onPlayerBulletEnemy(c, PlayerBulletH(b), EnemyH(e)) IN Set(t)

PlayerBulletEnemyBulletOverlap ==
    LET c == Cur IN
        \E b \in PlayerBulletSlots, eb \in EnemyBulletSlots :
            /\ playerBullets[b] /\ enemyBullets[eb]
            /\ LET t == onPlayerBulletEnemyBullet(c, PlayerBulletH(b), EnemyBulletH(eb)) IN Set(t)

EnemyBulletWormOverlap ==
    LET c == Cur IN
        \E eb \in EnemyBulletSlots :
            /\ enemyBullets[eb]
            /\ LET t == onEnemyBulletWorm(c, EnemyBulletH(eb)) IN Set(t)

EnemyWormOverlap ==
    LET c == Cur IN
        \E e \in EnemySlots :
            /\ enemies[e].active
            /\ LET t == onEnemyWorm(c, EnemyH(e)) IN Set(t)

PlayerBulletHeartOverlap ==
    LET c == Cur IN
        \E b \in PlayerBulletSlots, h \in HeartSlots :
            /\ playerBullets[b] /\ hearts[h]
            /\ LET t == onPlayerBulletHeart(c, PlayerBulletH(b), HeartH(h)) IN Set(t)

SpawnTimerFire ==
    LET c == Cur IN
        \E k \in 1..Len(waveTimers), r \in RandomDraws :
            /\ waveTimers[k].spawnTimer
            /\ (~isGameOver /\ waveTimers[k].spawned < waveTimers[k].count)
                  => FreeEnemySlots(c) # {}
            /\ LET t == spawnTimerCallback(c, k, r) IN Set(t)

ShootTimerFire ==
    LET c == Cur IN
        \E e \in EnemySlots :
            /\ enemies[e].shootTimer
            /\ (enemies[e].active /\ ~isGameOver) => FreeEnemyBulletSlots(c) # {}
            /\ LET t == shootTimerCallback(c, e) IN Set(t)

CheckWaveTimerFire ==
    LET c == Cur IN
        \E k \in 1..Len(waveTimers) :
            /\ waveTimers[k].checkWaveTimer
            /\ wave < MaxWave \/ isGameOver \/ checkWaveCallback(c, k).wave = wave
            /\ LET t == checkWaveCallback(c, k) IN Set(t)

\* Times in ms, counted from the creation of the two timers of invocation w
\* of spawnWave.  The spawn timer fires every w.delay; firing number
\* count + 1 finds spawned >= count and removes the timer (lines 270-273).
SpawnTimerRemovedAt(w) == (w.count + 1) * w.delay

\* The poll fires every w.checkDelay; it cannot find the quota spawned
\* before firing number count of the spawn timer.
FirstPollAfterQuota(w) ==
    ((w.count * w.delay + w.checkDelay - 1) \div w.checkDelay) * w.checkDelay

\* Earliest time at which a call delayed by d that the poll schedules runs.
EarliestNextWaveAt(w, d) == FirstPollAfterQuota(w) + d

\* The clock runs the events that are due in the order they were added, and
\* the spawn timer is older than the delayed call.
SpawnTimerGoneBeforeNextWave(w, d) == SpawnTimerRemovedAt(w) <= EarliestNextWaveAt(w, d)

\* The delayed call of lines 332-334 runs; a spawn timer whose poll has
\* advanced the wave and whose removal is due no later has fired before it.
WaveAdvanceFire ==
    LET c == Cur IN
        /\ advanceCalls # <<>>
        /\ ~isGameOver => Len(waveTimers) < MaxWaveTimers
        /\ \A k \in 1..Len(waveTimers) :
              (waveTimers[k].spawnTimer /\ ~waveTimers[k].checkWaveTimer)
                  => ~SpawnTimerGoneBeforeNextWave(waveTimers[k], Head(advanceCalls))
        /\ LET t == advanceCallback(c) IN Set(t)

InvulExpire ==
    LET c == Cur IN
        /\ invulCalls # <<>>
        /\ LET t == invulCallback(c) IN Set(t)

HeartTimerFire ==
    LET c == Cur IN
        /\ heartTimers > 0
        /\ (gameStarted /\ ~isGameOver) => FreeHeartSlots(c) # {}
        /\ LET t == heartTimerCallback(c) IN Set(t)

Next ==
    \/ StartGame
    \/ Restart
    \/ PointerDown
    \/ Update
    \/ PlayerBulletEnemyOverlap
    \/ PlayerBulletEnemyBulletOverlap
    \/ EnemyBulletWormOverlap
    \/ EnemyWormOverlap
    \/ PlayerBulletHeartOverlap
    \/ SpawnTimerFire
    \/ ShootTimerFire
    \/ CheckWaveTimerFire
    \/ WaveAdvanceFire
    \/ InvulExpire
    \/ HeartTimerFire

Spec == Init /\ [][Next]_vars


\* ------------------------------------------- removal attempts on the worm
\* The projectile-enemy rule called with the worm as its enemy operand
\* (the case lines 108-112 refuse).
WormAsEnemyOverlap ==
    LET c == Cur IN
    \E b \in PlayerBulletSlots :
        /\ playerBullets[b]
        /\ LET t == onPlayerBulletEnemy(c, PlayerBulletH(b), Worm) IN Set(t)

\* safeDestroy called with the worm (the case lines 220-224 refuse).
SafeDestroyWorm ==
    LET c == Cur IN
    /\ LET t == safeDestroy(c, Worm) IN Set(t)

NextDefensive ==
    \/ Next
    \/ WormAsEnemyOverlap
    \/ SafeDestroyWorm

SpecDefensive == Init /\ [][NextDefensive]_vars

\* ----------------------------------------------------- heal on any health
\* heal is a function of health, maxHealth and the game-over flag; the runs
\* of Spec only ever call it with health = maxHealth.  SpecHeal starts a run
\* (the state startGame leaves) with health drawn from HealthInputs and lets
\* projectiles, pickups, enemies and life losses happen.
HealthInputs == {0, 28, 72, 73, 90, 100}

InitHeal ==
    /\ gameStarted = TRUE
    /\ isGameOver = FALSE
    /\ invulnerable = FALSE
    /\ score = 0
    /\ health \in HealthInputs
    /\ maxHealth = INITIAL_HEALTH
    /\ lives = INITIAL_LIVES
    /\ wave = INITIAL_WAVE
    /\ enemiesPerWave = INITIAL_ENEMIES_PER_WAVE
    /\ wormActive = TRUE
    /\ enemies = ClearedEnemies
    /\ playerBullets = ClearedPlayerBullets
    /\ enemyBullets = ClearedEnemyBullets
    /\ hearts = ClearedHearts
    /\ waveTimers = <<[count |-> INITIAL_ENEMIES_PER_WAVE, spawned |-> 0,
                       delay |-> spawnDelay(INITIAL_WAVE), checkDelay |-> CHECK_WAVE_DELAY,
                       spawnTimer |-> TRUE, checkWaveTimer |-> TRUE]>>
    /\ advanceCalls = <<>>
    /\ invulCalls = <<>>
    /\ heartTimers = 1
    /\ overlay = "none"
    /\ warned = FALSE
    /\ uncaught = FALSE
    /\ kills = 0
    /\ endGames = 0

NextHeal ==
    \/ PointerDown
    \/ HeartTimerFire
    \/ PlayerBulletHeartOverlap
    \/ SpawnTimerFire
    \/ EnemyWormOverlap
    \/ InvulExpire

SpecHeal == InitHeal /\ [][NextHeal]_vars

\* ------------------------------------------------- fire-timer periods
\* The period of a fire timer is a function of the wave and of one draw of
\* Phaser.Math.Between(1200, 2200).  SpecFirePeriod starts a run at the
\* beginning of any wave from SHOOTER_FROM_WAVE to MaxFireWave (the state
\* the delayed spawnWave call of lines 332-334 leaves when every enemy of
\* the earlier waves was shot) and spawns shooters with the draws of
\* FireDraws.
FireWaves == SHOOTER_FROM_WAVE..MaxFireWave

FireDraws == {BETWEEN_MIN, BETWEEN_MIN + 1, 1700, BETWEEN_MAX - 1, BETWEEN_MAX}

FireRandomDraws == {[chance |-> c, between |-> d] : c \in {0, 99}, d \in FireDraws}

\* enemiesPerWave at wave w: 4 at wave 1, one more per wave, capped (line 331)
EnemiesPerWaveAt(w) ==
    Min(ENEMIES_PER_WAVE_CAP, INITIAL_ENEMIES_PER_WAVE + (w - INITIAL_WAVE))

RECURSIVE EnemiesBeforeWave(_)
EnemiesBeforeWave(w) ==
    IF w <= INITIAL_WAVE THEN 0
    ELSE EnemiesBeforeWave(w - 1) + EnemiesPerWaveAt(w - 1)

InitFire ==
    /\ gameStarted = TRUE
    /\ isGameOver = FALSE
    /\ invulnerable = FALSE
    /\ wave \in FireWaves
    /\ score = KILL_SCORE * EnemiesBeforeWave(wave)
    /\ health = INITIAL_HEALTH
    /\ maxHealth = INITIAL_HEALTH
    /\ lives = INITIAL_LIVES
    /\ enemiesPerWave = EnemiesPerWaveAt(wave)
    /\ wormActive = TRUE
    /\ enemies = ClearedEnemies
    /\ playerBullets = ClearedPlayerBullets
    /\ enemyBullets = ClearedEnemyBullets
    /\ hearts = ClearedHearts
    /\ waveTimers = <<[count |-> EnemiesPerWaveAt(wave), spawned |-> 0,
                       delay |-> spawnDelay(wave), checkDelay |-> CHECK_WAVE_DELAY,
                       spawnTimer |-> TRUE, checkWaveTimer |-> TRUE]>>
    /\ advanceCalls = <<>>
    /\ invulCalls = <<>>
    /\ heartTimers = 1
    /\ overlay = "none"
    /\ warned = FALSE
    /\ uncaught = FALSE
    /\ kills = 0
    /\ endGames = 0

\* spawnTimer callback with every draw of FireRandomDraws
SpawnShooterFire ==
    LET c == Cur IN
        \E k \in 1..Len(waveTimers), r \in FireRandomDraws :
            /\ waveTimers[k].spawnTimer
            /\ (~isGameOver /\ waveTimers[k].spawned < waveTimers[k].count)
                  => FreeEnemySlots(c) # {}
            /\ LET t == spawnTimerCallback(c, k, r) IN Set(t)

NextFire ==
    \/ SpawnShooterFire
    \/ ShootTimerFire
    \/ PointerDown
    \/ PlayerBulletEnemyOverlap
    \/ EnemyBulletWormOverlap

SpecFirePeriod == InitFire /\ [][NextFire]_vars

\* ------------------------------------------------------------ properties

\* The step taken by the START button: the start overlay goes away.
StartStep == overlay = "start" /\ overlay' = "none"

\* The run state the overlays show: SETUP under the start overlay, GAME_OVER
\* under the game-over overlay, RUNNING otherwise (lines 437-452, 382-403).
RunState ==
    IF overlay = "start" THEN "SETUP"
    ELSE IF overlay = "gameover" THEN "GAME_OVER"
    ELSE "RUNNING"

\* C1: within one run lives never increases and is never negative; the step
\* that brings lives to 0 sets isGameOver and clears gameStarted; endGame's
\* effects happen once per run; once the game is over, loseLife, endGame and
\* the two life-loss rules change neither lives nor the game-over state.
C1_LivesMonotone ==
    /\ [](/\ lives \in 0..INITIAL_LIVES
          /\ endGames <= 1
          /\ (lives = 0 <=> isGameOver)
          /\ isGameOver =>
                /\ ~gameStarted
                /\ endGames = 1
                /\ loseLife(Cur) = Cur
                /\ endGame(Cur) = Cur
                /\ \A e \in EnemySlots : onEnemyWorm(Cur, EnemyH(e)) = Cur
                /\ \A b \in EnemyBulletSlots :
                      LET t == onEnemyBulletWorm(Cur, EnemyBulletH(b))
                      IN  t.lives = lives /\ t.endGames = endGames /\ t.isGameOver)
    /\ [][\/ StartStep
          \/ /\ lives' <= lives
             /\ lives' >= lives - 1
             /\ (lives > 0 /\ lives' = 0) => (isGameOver' /\ ~gameStarted')
             /\ endGames' >= endGames
             /\ (endGames' # endGames) <=> (lives > 0 /\ lives' = 0)
             /\ isGameOver => (isGameOver' /\ lives' = lives)]_vars

\* C1 witness: a run that lost its three lives and ended once.
C1_Witness ==
    /\ isGameOver /\ ~gameStarted
    /\ lives = 0
    /\ endGames = 1
    /\ overlay = "gameover"

C3_OneContactHitPerEnemy ==
    /\ \A e \in EnemySlots : enemies[e].hits <= 1
    /\ \A e \in EnemySlots :
          enemies[e].active =>
              \A inv \in BOOLEAN :
                  LET marked == [Cur EXCEPT !.enemies[e].hasHit = TRUE,
                                            !.invulnerable = inv]
                  IN  onEnemyWorm(marked, EnemyH(e)) = marked

\* C3 witness: one enemy has taken a life, and another enemy is in contact
\* range while the player is still invulnerable.
C3_Witness ==
    /\ \E e \in EnemySlots : enemies[e].hits = 1
    /\ \E f \in EnemySlots : enemies[f].active
    /\ invulnerable
    /\ lives > 0

\* C4: the player is active in every reachable state; safeDestroy(worm) and
\* the projectile-enemy rule with the worm as its enemy operand are refused:
\* they log a warning and leave the projectile, the score and the player
\* as they were.
C4_WormNeverRemoved ==
    /\ [](/\ wormActive
          /\ safeDestroy(Cur, Worm) = [Cur EXCEPT !.warned = TRUE]
          /\ \A b \in PlayerBulletSlots :
                playerBullets[b] =>
                    onPlayerBulletEnemy(Cur, PlayerBulletH(b), Worm)
                        = [Cur EXCEPT !.warned = TRUE])
    /\ [][(~warned /\ warned') =>
             /\ wormActive'
             /\ playerBullets' = playerBullets
             /\ score' = score
             /\ enemies' = enemies]_vars

\* C4 witness: a removal of the player was attempted and refused in a run
\* that scored and then ended.
C4_Witness ==
    /\ warned
    /\ wormActive
    /\ isGameOver
    /\ score > 0

\* C5: safeDestroy on an inactive entity or on a missing handle changes no
\* state and raises no error, and a second safeDestroy of the same entity
\* changes nothing more.
C5_SafeDestroyIdempotent ==
    /\ ~uncaught
    /\ \A h \in Handles :
          (h = Null \/ ~Active(Cur, h)) => safeDestroy(Cur, h) = Cur
    /\ \A h \in Handles \ {Worm} :
          LET once == safeDestroy(Cur, h)
          IN  /\ safeDestroy(once, h) = once
              /\ ~Active(once, h)
              /\ ~once.uncaught

\* C5 witness: destroyed entities (an enemy removed by contact) next to
\* active ones of every pool.
C5_Witness ==
    /\ \E e \in EnemySlots : ~enemies[e].active /\ enemies[e].hits = 1
    /\ \E e \in EnemySlots : enemies[e].active
    /\ \E b \in PlayerBulletSlots : playerBullets[b]
    /\ \E h \in HeartSlots : hearts[h]

\* C6: an active player projectile overlapping an active enemy removes both
\* and adds exactly 10 to the score; the score changes in no other step of a
\* run, so it is 10 times the enemies destroyed by player projectiles since
\* the last start.
C6_ScoreIsTenPerKill ==
    /\ [](/\ score = KILL_SCORE * kills
          /\ score >= 0
          /\ \A b \in PlayerBulletSlots, e \in EnemySlots :
                (playerBullets[b] /\ enemies[e].active) =>
                    LET t == onPlayerBulletEnemy(Cur, PlayerBulletH(b), EnemyH(e))
                    IN  /\ t.score = score + 10
                        /\ ~t.playerBullets[b]
                        /\ ~t.enemies[e].active)
    /\ [][(score' # score) =>
             \/ StartStep /\ score' = 0
             \/ /\ score' = score + 10
                /\ \E b \in PlayerBulletSlots : playerBullets[b] /\ ~playerBullets'[b]
                /\ \E e \in EnemySlots : enemies[e].active /\ ~enemies'[e].active
                /\ lives' = lives /\ health' = health]_vars

\* C6 witness: two enemies destroyed by player projectiles.
C6_Witness ==
    /\ score = 20
    /\ kills = 2
    /\ gameStarted

\* C7: the step that brings lives to 0 enters GAME_OVER and leaves no enemy,
\* player projectile, enemy projectile or pickup active.
C7_GameOverClearsAllPools ==
    [][(lives > 0 /\ lives' = 0) =>
          /\ isGameOver' /\ ~gameStarted'
          /\ \A e \in EnemySlots : ~enemies'[e].active
          /\ \A b \in PlayerBulletSlots : ~playerBullets'[b]
          /\ \A b \in EnemyBulletSlots : ~enemyBullets'[b]
          /\ \A h \in HeartSlots : ~hearts'[h]]_vars

\* C7 witness: the game is over and an enemy is still active.
C7_Witness ==
    /\ isGameOver
    /\ lives = 0
    /\ overlay = "gameover"
    /\ \E e \in EnemySlots : enemies[e].active

\* The state the start action leaves (startGame, lines 454-482).
PostStart ==
    /\ gameStarted /\ ~isGameOver /\ ~invulnerable
    /\ score = 0
    /\ health = maxHealth
    /\ lives = 3
    /\ wave = 1
    /\ enemiesPerWave = 4
    /\ \A e \in EnemySlots : ~enemies[e].active
    /\ \A b \in PlayerBulletSlots : ~playerBullets[b]
    /\ \A b \in EnemyBulletSlots : ~enemyBullets[b]
    /\ \A h \in HeartSlots : ~hearts[h]
    /\ waveTimers = <<[count |-> 4, spawned |-> 0, delay |-> 840, checkDelay |-> 500,
                       spawnTimer |-> TRUE, checkWaveTimer |-> TRUE]>>
    /\ heartTimers = 1
    /\ overlay = "none"

\* C8: the run state moves SETUP -> RUNNING -> GAME_OVER -> SETUP only;
\* gameStarted becomes true only by the start action, which leaves score 0,
\* health = maxHealth, lives 3, wave 1, enemiesPerWave 4, invulnerable and
\* isGameOver false, the four pools empty and wave 1 spawning, whatever the
\* previous run left.
C8_RunStateMachine ==
    /\ [](/\ (RunState = "RUNNING") <=> (gameStarted /\ ~isGameOver)
          /\ (RunState = "GAME_OVER") => (isGameOver /\ ~gameStarted)
          /\ (RunState = "SETUP") => ~gameStarted)
    /\ [][/\ (RunState' # RunState) =>
                <<RunState, RunState'>> \in {<<"SETUP", "RUNNING">>,
                                             <<"RUNNING", "GAME_OVER">>,
                                             <<"GAME_OVER", "SETUP">>}
          /\ (~gameStarted /\ gameStarted') => StartStep
          /\ StartStep => PostStart']_vars

\* C8 witness: a run just started, the score of the previous run gone.
C8_Witness ==
    /\ PostStart
    /\ kills = 0 /\ endGames = 0

\* C9: wave changes, apart from the start action, only in a 500 ms poll that
\* finds the game not over, the quota of its wave spawned and no enemy
\* active; it then grows by 1, enemiesPerWave becomes min(12,
\* enemiesPerWave + 1) and a 700 ms call is scheduled, which starts the next
\* wave's timers unless the game is over by then.
C9_WaveAdvance ==
    /\ [](/\ enemiesPerWave = Min(ENEMIES_PER_WAVE_CAP, 3 + wave)
          /\ (isGameOver /\ advanceCalls # <<>>) =>
                advanceCallback(Cur).waveTimers = waveTimers
          /\ \A k \in 1..Len(waveTimers), w \in 1..LateWave :
                LET s == [Cur EXCEPT !.wave = w,
                                     !.enemiesPerWave = Min(ENEMIES_PER_WAVE_CAP, 3 + w)]
                    t == checkWaveCallback(s, k)
                IN  /\ t.enemiesPerWave <= 12
                    /\ (t.wave # w) =>
                          /\ t.wave = w + 1
                          /\ t.enemiesPerWave = Min(12, s.enemiesPerWave + 1)
                          /\ waveTimers[k].spawned >= waveTimers[k].count
                          /\ CountActiveEnemies(Cur) = 0
                          /\ ~isGameOver)
    /\ [][/\ (wave' # wave) =>
                \/ StartStep
                \/ /\ wave' = wave + 1
                   /\ enemiesPerWave' = Min(12, enemiesPerWave + 1)
                   /\ ~isGameOver
                   /\ CountActiveEnemies(Cur) = 0
                   /\ \E k \in 1..Len(waveTimers) :
                         /\ waveTimers[k].checkWaveTimer
                         /\ waveTimers[k].checkDelay = 500
                         /\ waveTimers[k].spawned >= waveTimers[k].count
                   /\ advanceCalls' = Append(advanceCalls, 700)
                   /\ enemies' = enemies
          /\ (Len(waveTimers') > Len(waveTimers)) =>
                \/ StartStep
                \/ /\ advanceCalls # <<>>
                   /\ Head(advanceCalls) = 700
                   /\ advanceCalls' = Tail(advanceCalls)
                   /\ ~isGameOver
                   /\ wave' = wave]_vars

\* C9 witness: wave 1 spawned its 4 enemies, all of them went inactive, and
\* the poll advanced to wave 2 with 5 enemies; the 700 ms call is pending.
C9_Witness ==
    /\ wave = 2
    /\ enemiesPerWave = 5
    /\ gameStarted
    /\ advanceCalls = <<700>>

\* C10: an enemy that is a shooter, a fire timer and an enemy projectile
\* exist only if wave >= 3, and isShooter of an enemy does not change while
\* the enemy lives.
C10_ShootersFromWaveThree ==
    /\ [](/\ \A e \in EnemySlots :
                (enemies[e].isShooter \/ enemies[e].shootTimer) => wave >= 3
          /\ \A e \in EnemySlots : enemies[e].shootTimer => enemies[e].isShooter
          /\ \A b \in EnemyBulletSlots : enemyBullets[b] => wave >= 3)
    /\ [][\A e \in EnemySlots :
             (enemies[e].active /\ enemies'[e].active) =>
                 enemies'[e].isShooter = enemies[e].isShooter]_vars

\* C10 witness: in wave 3 a shooter and a plain enemy are alive and an enemy
\* projectile is in flight.
C10_Witness ==
    /\ wave = 3
    /\ \E e \in EnemySlots : enemies[e].active /\ enemies[e].isShooter
    /\ \E e \in EnemySlots : enemies[e].active /\ ~enemies[e].isShooter
    /\ \E b \in EnemyBulletSlots : enemyBullets[b]

\* The flags, counters and pools of a scene state: everything but its pending
\* timers (fields, lines 25-55; the fire timer of an enemy is a timer).
GameState(s) ==
    <<s.gameStarted, s.isGameOver, s.invulnerable, s.score, s.health, s.maxHealth,
      s.lives, s.wave, s.enemiesPerWave, s.wormActive,
      [e \in EnemySlots |-> <<s.enemies[e].active, s.enemies[e].hasHit,
                              s.enemies[e].isShooter>>],
      s.playerBullets, s.enemyBullets, s.hearts>>

\* A step in which one of the six timer callbacks runs.
TimerFire ==
    \/ SpawnTimerFire
    \/ ShootTimerFire
    \/ CheckWaveTimerFire
    \/ WaveAdvanceFire
    \/ InvulExpire
    \/ HeartTimerFire

\* C11: a timer callback (spawn timer, fire timer, wave-check poll, delayed
\* wave advance, pickup timer, invulnerability expiry) that fires while the
\* game is over modifies no flag, counter or pool.
C11_TimersInertWhenGameOver ==
    [][(isGameOver /\ TimerFire) => GameState(Cur)' = GameState(Cur)]_vars

\* C11 witness: the game is over and the invulnerability expiry has fired
\* under the game-over overlay: it cleared the flag that the last life loss
\* had set.
C11_Witness ==
    /\ isGameOver
    /\ overlay = "gameover"
    /\ lives = 0
    /\ ~invulnerable
    /\ invulCalls = <<>>

\* C12: a removed enemy has no fire timer left, whichever way it was removed
\* (projectile hit, contact, off-screen cleanup, pool clear); an enemy
\* projectile is created only by the fire timer of an active enemy, and the
\* fire callback run for an inactive enemy changes no flag, counter or pool.
C12_FireTimerDiesWithEnemy ==
    /\ [](\A e \in EnemySlots :
             /\ enemies[e].shootTimer => (enemies[e].active /\ enemies[e].isShooter)
             /\ ~enemies[e].active =>
                   GameState(shootTimerCallback(Cur, e)) = GameState(Cur))
    /\ [][/\ \A e \in EnemySlots :
                (enemies[e].active /\ ~enemies'[e].active) => ~enemies'[e].shootTimer
          /\ (\E b \in EnemyBulletSlots : ~enemyBullets[b] /\ enemyBullets'[b]) =>
                /\ ~isGameOver
                /\ \E e \in EnemySlots :
                      /\ enemies[e].active /\ enemies[e].shootTimer
                      /\ enemies'[e] = enemies[e]]_vars

\* C12 witness: an enemy projectile is still in flight in wave 3 while no
\* enemy is active any more (its shooter was removed, another enemy was
\* removed by contact) and no fire timer is left.
C12_Witness ==
    /\ wave = 3
    /\ gameStarted
    /\ \E b \in EnemyBulletSlots : enemyBullets[b]
    /\ \A e \in EnemySlots : ~enemies[e].active /\ ~enemies[e].shootTimer
    /\ \E e \in EnemySlots : enemies[e].hits = 1

\* One hostile overlap callback: an enemy projectile or an enemy on the worm.
HostileHandles ==
    {EnemyBulletH(i) : i \in EnemyBulletSlots} \cup {EnemyH(i) : i \in EnemySlots}
hostileOverlap(s, h) ==
    IF h[1] = "enemy" THEN onEnemyWorm(s, h) ELSE onEnemyBulletWorm(s, h)

\* C13: a life loss needs the window closed and no expiry pending, and opens
\* the window with one 700 ms expiry pending; while the window is open an
\* enemy projectile on the worm is removed and nothing else changes, and an
\* enemy on the worm changes nothing; at most one expiry is ever pending;
\* two hostile overlaps run one after the other cost at most one life; and an
\* open window always has its expiry pending, so that it closes again.
C13_InvulnerabilityWindow ==
    /\ [](/\ Len(invulCalls) <= 1
          /\ invulnerable => (invulCalls = <<INVULNERABLE_MS_AFTER_HIT>>)
          /\ invulnerable =>
                /\ \A b \in EnemyBulletSlots :
                      enemyBullets[b] =>
                          onEnemyBulletWorm(Cur, EnemyBulletH(b))
                              = [Cur EXCEPT !.enemyBullets[b] = FALSE]
                /\ \A e \in EnemySlots :
                      enemies[e].active => onEnemyWorm(Cur, EnemyH(e)) = Cur
          /\ \A h1 \in HostileHandles, h2 \in HostileHandles :
                LET s1 == hostileOverlap(Cur, h1)
                    s2 == hostileOverlap(s1, h2)
                IN  s2.lives >= lives - 1)
    /\ [][/\ (lives' < lives) =>
                /\ ~invulnerable /\ invulCalls = <<>>
                /\ invulnerable' /\ invulCalls' = <<700>>
          /\ (invulnerable /\ ~invulnerable') =>
                (StartStep \/ (invulCalls = <<700>> /\ invulCalls' = <<>>))]_vars

\* C13 witness: the start overlay is up again after a restart, the window
\* of the last life loss is still open and no expiry is pending.
C13_Witness ==
    /\ overlay = "start"
    /\ invulnerable
    /\ invulCalls = <<>>
    /\ lives = 0

\* Every reading of the positions of the active entities, each in any region.
CleanupReadings(s) ==
    {[pb |-> opb, eb |-> oeb, en |-> oen, h |-> oh] :
        opb \in {o \in [PlayerBulletSlots -> Zones] :
                    \A i \in PlayerBulletSlots : ~s.playerBullets[i] => o[i] = "in"},
        oeb \in {o \in [EnemyBulletSlots -> Zones] :
                    \A i \in EnemyBulletSlots : ~s.enemyBullets[i] => o[i] = "in"},
        oen \in {o \in [EnemySlots -> Zones] :
                    \A i \in EnemySlots : ~s.enemies[i].active => o[i] = "in"},
        oh \in {o \in [HeartSlots -> Zones] :
                    \A i \in HeartSlots : ~s.hearts[i] => o[i] = "in"}}

\* A position further than margin m outside the display surface.
Beyond(z, m) ==
    \/ PosX(z) < -m
    \/ PosX(z) > SCALE_WIDTH + m
    \/ PosY(z) < -m
    \/ PosY(z) > SCALE_HEIGHT + m

\* C14: after the cleanup pass of a RUNNING tick no active player projectile
\* is further than 80 and no active enemy projectile further than 200
\* outside the 900x505 surface, in any direction, and no active enemy or
\* pickup is past the right margin (160, 60).
C14_CleanupRemovesOffScreen ==
    (gameStarted /\ ~isGameOver) =>
        \A pos \in CleanupReadings(Cur) :
            LET t == cleanupObjects(Cur, pos)
            IN  /\ \A j \in PlayerBulletSlots :
                      t.playerBullets[j] => ~Beyond(pos.pb[j], 80)
                /\ \A j \in EnemyBulletSlots :
                      t.enemyBullets[j] => ~Beyond(pos.eb[j], 200)
                /\ \A j \in EnemySlots :
                      t.enemies[j].active => ~(PosX(pos.en[j]) > SCALE_WIDTH + 160)
                /\ \A j \in HeartSlots :
                      t.hearts[j] => ~(PosX(pos.h[j]) > SCALE_WIDTH + 60)

\* C14 witness: a running state with a player projectile and an enemy
\* projectile in flight, which a tick may read below and above the surface.
C14_Witness ==
    /\ gameStarted /\ ~isGameOver
    /\ \E j \in PlayerBulletSlots : playerBullets[j]
    /\ \E j \in EnemyBulletSlots : enemyBullets[j]
    /\ \E pos \in CleanupReadings(Cur) :
          LET t == cleanupObjects(Cur, pos)
          IN  /\ \E j \in PlayerBulletSlots :
                    t.playerBullets[j] /\ PosY(pos.pb[j]) > SCALE_HEIGHT + 80
              /\ \E j \in EnemyBulletSlots :
                    t.enemyBullets[j] /\ PosY(pos.eb[j]) < -200

\* The pairs the five overlap rules of create() are registered for (lines
\* 103-159), and the rule of a pair.
OverlapPairs ==
    {<<PlayerBulletH(b), EnemyH(e)>> : b \in PlayerBulletSlots, e \in EnemySlots}
      \cup {<<PlayerBulletH(b), EnemyBulletH(x)>> :
                b \in PlayerBulletSlots, x \in EnemyBulletSlots}
      \cup {<<EnemyBulletH(x), Worm>> : x \in EnemyBulletSlots}
      \cup {<<EnemyH(e), Worm>> : e \in EnemySlots}
      \cup {<<PlayerBulletH(b), HeartH(h)>> : b \in PlayerBulletSlots, h \in HeartSlots}
overlapRule(s, p) ==
    CASE p[1][1] = "playerBullet" /\ p[2][1] = "enemy" -> onPlayerBulletEnemy(s, p[1], p[2])
      [] p[1][1] = "playerBullet" /\ p[2][1] = "enemyBullet" ->
            onPlayerBulletEnemyBullet(s, p[1], p[2])
      [] p[1][1] = "enemyBullet" -> onEnemyBulletWorm(s, p[1])
      [] p[1][1] = "enemy" -> onEnemyWorm(s, p[1])
      [] OTHER -> onPlayerBulletHeart(s, p[1], p[2])

C16_SpawnQuota ==
    /\ [](\A k \in 1..Len(waveTimers) :
             LET w == waveTimers[k] IN
             /\ w.spawned \in 0..w.count
             /\ w.checkWaveTimer =>
                   /\ w.count = enemiesPerWave
                   /\ w.delay = Max(220, 900 - Min(wave * 60, 600))
                   /\ (wave = 1 => w.delay = 840)
             /\ (w.spawnTimer /\ (isGameOver \/ w.spawned = w.count)) =>
                   \A r \in RandomDraws :
                       LET t == spawnTimerCallback(Cur, k, r)
                       IN  /\ GameState(t) = GameState(Cur)
                           /\ \A j \in 1..Len(t.waveTimers) :
                                 t.waveTimers[j].spawnTimer =>
                                     \E i \in (1..Len(waveTimers)) \ {k} :
                                         t.waveTimers[j] = waveTimers[i])
    /\ [][/\ \A e \in EnemySlots :
                (~enemies[e].active /\ enemies'[e].active) =>
                    /\ ~isGameOver
                    /\ ~enemies'[e].hasHit
                    /\ \A f \in EnemySlots \ {e} : enemies'[f] = enemies[f]
                    /\ \E k \in 1..Len(waveTimers) :
                          /\ waveTimers[k].spawnTimer
                          /\ waveTimers[k].spawned < waveTimers[k].count
                          /\ waveTimers' = [waveTimers EXCEPT
                                               ![k].spawned = waveTimers[k].spawned + 1]
          /\ (waveTimers' # waveTimers /\ Len(waveTimers') = Len(waveTimers)
                /\ \E k \in 1..Len(waveTimers) :
                      waveTimers'[k].spawned # waveTimers[k].spawned) =>
                \/ StartStep
                \/ Cardinality({e \in EnemySlots :
                                   ~enemies[e].active /\ enemies'[e].active}) = 1]_vars

\* C16 witness: wave 1 has created its 4 enemies at period 840 and its spawn
\* timer has stopped.
C16_Witness ==
    /\ wave = 1
    /\ gameStarted
    /\ \E k \in 1..Len(waveTimers) :
          /\ waveTimers[k].count = 4
          /\ waveTimers[k].spawned = 4
          /\ waveTimers[k].delay = 840
          /\ ~waveTimers[k].spawnTimer


\* ---------------------------------------------------------------- C17
\* C17: at every wave at which shooters are spawned (wave >= 3) and for
\* every draw of Between(1200, 2200), the period of the fire timer,
\* draw - min((wave - 3) * 50, 500), is at least 700 ms, hence positive;
\* every fire timer a spawn starts has such a period.
C17_FirePeriodAtLeast700 ==
    /\ wave >= SHOOTER_FROM_WAVE =>
          \A d \in BETWEEN_MIN..BETWEEN_MAX :
              /\ shootTimerDelay(d, wave) >= 700
              /\ shootTimerDelay(d, wave) > 0
    /\ \A e \in EnemySlots :
          enemies[e].shootTimer =>
              /\ enemies[e].shootDelay >= 700
              /\ enemies[e].shootDelay > 0

\* a shooter spawned at a late wave with the smallest draw: period 700
C17_Witness ==
    \E e \in EnemySlots :
        /\ enemies[e].active
        /\ enemies[e].shootTimer
        /\ enemies[e].shootDelay = 700
        /\ wave > SHOOTER_FROM_WAVE + 10


\* ---------------------------------------------------------------- C18
\* C18: from the step that ends the run until the next START (under the
\* game-over overlay and under the start overlay that follows RESTART) no
\* step creates an enemy, a player projectile, an enemy projectile or a
\* pickup, and no step changes score, lives, health, wave or enemiesPerWave.
C18_FrozenOutsideRunning ==
    [][(isGameOver /\ ~StartStep) =>
          /\ \A e \in EnemySlots : enemies'[e].active => enemies[e].active
          /\ \A b \in PlayerBulletSlots : playerBullets'[b] => playerBullets[b]
          /\ \A b \in EnemyBulletSlots : enemyBullets'[b] => enemyBullets[b]
          /\ \A h \in HeartSlots : hearts'[h] => hearts[h]
          /\ score' = score
          /\ lives' = lives
          /\ health' = health
          /\ wave' = wave
          /\ enemiesPerWave' = enemiesPerWave]_vars

\* game over with the heart timer still scheduled and a shooter that is
\* still active although its fire timer has run once and removed itself
C18_Witness ==
    /\ isGameOver
    /\ overlay = "gameover"
    /\ heartTimers > 0
    /\ \E e \in EnemySlots :
          /\ enemies[e].active
          /\ enemies[e].isShooter
          /\ ~enemies[e].shootTimer
    /\ \A h \in HeartSlots : ~hearts[h]
    /\ \A b \in EnemyBulletSlots : ~enemyBullets[b]


\* ---------------------------------------------------------------- C19
\* C19: in every reachable state health equals maxHealth and both are 100:
\* losing a life leaves health alone, startGame resets it to maxHealth and
\* heal, called at full health, clamps back to maxHealth.
C19_HealthAlwaysFull ==
    /\ health = maxHealth
    /\ maxHealth = INITIAL_HEALTH
    /\ heal(Cur, HEART_HEAL_AMOUNT).health = maxHealth

\* a run in which a life was lost and an enemy shot, with a pickup on screen
C19_Witness ==
    /\ gameStarted /\ ~isGameOver
    /\ lives < INITIAL_LIVES
    /\ kills > 0
    /\ \E h \in HeartSlots : hearts[h]
    /\ health = INITIAL_HEALTH


\* ---------------------------------------------------------------- C20
\* Timers of the invocations of spawnWave that are still scheduled.
LiveSpawnTimers == {k \in 1..Len(waveTimers) : waveTimers[k].spawnTimer}
LiveCheckWaveTimers == {k \in 1..Len(waveTimers) : waveTimers[k].checkWaveTimer}

\* The timers a wave w starts.
WaveTimersAt(w) ==
    [count |-> EnemiesPerWaveAt(w), spawned |-> 0, delay |-> spawnDelay(w),
     checkDelay |-> CHECK_WAVE_DELAY, spawnTimer |-> TRUE, checkWaveTimer |-> TRUE]

\* C20: waves never overlap: at most one spawn timer and at most one
\* wave-check timer are scheduled; every active enemy was spawned in the
\* current wave; the active enemies are at most the enemies the wave has
\* spawned so far, which are at most enemiesPerWave, which is
\* min(12, wave + 3) and so at most 12; and at every wave up to MaxFireWave
\* the spawn timer's removal is due no later than the next wave's start.
C20_WavesNeverOverlap ==
    /\ Cardinality(LiveSpawnTimers) <= 1
    /\ Cardinality(LiveCheckWaveTimers) <= 1
    /\ \A e \in EnemySlots : enemies[e].active => enemies[e].wave = wave
    /\ CountActiveEnemies(Cur) <= enemiesPerWave
    /\ enemiesPerWave <= ENEMIES_PER_WAVE_CAP
    /\ \A k \in LiveCheckWaveTimers :
          /\ CountActiveEnemies(Cur) <= waveTimers[k].spawned
          /\ waveTimers[k].spawned <= waveTimers[k].count
          /\ waveTimers[k].count = enemiesPerWave
    /\ (~isGameOver /\ LiveCheckWaveTimers = {}) => CountActiveEnemies(Cur) = 0
    /\ enemiesPerWave = EnemiesPerWaveAt(wave)
    /\ \A w \in INITIAL_WAVE..MaxFireWave :
          /\ EnemiesPerWaveAt(w) = Min(12, w + 3)
          /\ SpawnTimerGoneBeforeNextWave(WaveTimersAt(w), WAVE_ADVANCE_DELAY)

\* wave 2 is under way: its timers are the only ones scheduled and one of
\* its enemies is active, after two enemies of wave 1 were shot
C20_Witness ==
    /\ wave = 2
    /\ gameStarted /\ ~isGameOver
    /\ kills = MaxKills
    /\ Len(waveTimers) = 1
    /\ waveTimers[1].count = 5
    /\ waveTimers[1].spawned > 0
    /\ \E e \in EnemySlots : enemies[e].active /\ enemies[e].wave = 2

=============================================================================
